---- MODULE Spec2Model ----
(***************************************************************************)
(* Model of the push-notification backend of react-push-notifications      *)
(* (server.js): the in-memory subscription registry and the handlers that  *)
(* read and write it.                                                      *)
(*                                                                         *)
(* Express runs every handler on one thread.  The handlers of              *)
(* /api/subscribe and DELETE /api/subscriptions are synchronous and run to *)
(* completion.  The handler of /api/send-notification is async: it runs    *)
(* until `await webpush.sendNotification(...)`, is suspended there, and    *)
(* any other handler (another send-notification included) may run before   *)
(* the awaited send settles.                                               *)
(***************************************************************************)
EXTENDS Integers, Sequences, FiniteSets, TLC

(* ------------------------------ bounds --------------------------------- *)

\* An endpoint URL is modelled by the pair <<first 50 characters, rest>>.
NumPrefixes == 2
NumRests == 2
\* Distinct values of the `keys` object of a subscription.
NumKeyVals == 2
\* Largest registry the model lets subscribe build (the array is unbounded).
MaxSubs == 3
\* Requests accepted by the server in one behaviour.
MaxRequests == 4
\* Handlers of /api/send-notification that can be in progress at once.
NumDispatchers == 2

(* ------------------------------ inputs --------------------------------- *)

Endpoints == (1..NumPrefixes) \X (1..NumRests)
KeyVals == 1..NumKeyVals
\* req.body.subscription of a valid /api/subscribe request
Subscriptions == [endpoint : Endpoints, keys : KeyVals]

\* A value that is undefined (a field the request does not carry).
Undefined == [undefined |-> TRUE]
\* The empty string as an endpoint.
EmptyEndpoint == <<0, 0>>
\* req.body.subscription of the requests /api/subscribe rejects: no
\* subscription object, or one whose endpoint is missing or empty.
InvalidSubscriptions == {Undefined, [endpoint |-> EmptyEndpoint, keys |-> 1]}
SubscribeBodies == Subscriptions \cup InvalidSubscriptions
\* A subscription object that carries no `keys`.
NoKeys == 0
\* Subscriptions with and without keys, on endpoints that differ in their
\* first 50 characters.
KeylessSubscriptions ==
  [endpoint : (1..NumPrefixes) \X {1}, keys : {NoKeys} \cup KeyVals]
Procs == 1..NumDispatchers

\* statusCode of a settled webpush.sendNotification: 201 resolves; 410 and
\* 500 reject with that status; NoStatus rejects with no statusCode at all
\* (network error, timeout).
NoStatus == 0
SendOutcomes == {201, 410, 500, NoStatus}

\* endpoint.substring(0, 50) + '...'
Truncate(endpoint) == endpoint[1]

(* ------------------------------- state --------------------------------- *)

VARIABLES
  subscriptions,  \* the registry: `let subscriptions = []`
  pc,             \* per send-notification handler: "idle", "awaiting", "done"
  i,              \* loop index of the handler (0-based, as in the code)
  subscription,   \* `const subscription = subscriptions[i]` of the iteration
  results,        \* `const results = []`
  successCount,
  failureCount,
  resp,           \* response of the send-notification handler
  res,            \* response of the last synchronous handler
  nreq,           \* requests accepted so far
  startSubs,      \* history: the registry when the handler started
  sent,           \* history: subscriptions passed to webpush.sendNotification
  interleaved,    \* history: the registry was changed by another handler
                  \* while this one was suspended
  last,           \* history: the handler step taken last and its input
  saas,           \* the request to a OneSignal endpoint being handled: its
                  \* position, route, body, vendor payload, vendor reply,
                  \* number of vendor sends and response
  cpc,            \* browser client: position in the running utility function
  permission,     \* Notification.permission
  swRegistered,   \* the service worker is registered and ready
  browserSub,     \* the subscription pushManager.getSubscription() returns
  csub,           \* `subscription` local of the running utility function
  localStorage,   \* the item 'pushSubscription'
  cresult,        \* how the last utility call settled
  oneSignalLoaded,   \* oneSignal.ts: `let oneSignalLoaded`
  oneSignalPromise,  \* oneSignal.ts: `let oneSignalPromise`, by its state
  scripts,        \* SDK script elements appended to document.head
  loadCalls,      \* what each call of loadOneSignal returned
  windowOneSignal,   \* window.OneSignal is set (initOneSignal succeeded)
  oscall,         \* the last call of a OneSignal utility: the function,
                  \* what its environment answered, and its result
  logs,           \* tester component: `logs` state
  nlog,           \* entries created by addLog so far
  isLoading,      \* tester component: `isLoading` state
  handler,        \* the action handler in progress and its position
  windows,        \* service worker: the window clients clients.matchAll lists
  click           \* the notificationclick event being handled

saasVars == <<saas>>
\* state of the page outside pushNotifications.ts, and of the service worker
pageVars == <<oneSignalLoaded, oneSignalPromise, scripts, loadCalls,
              windowOneSignal, oscall, logs, nlog, isLoading, handler,
              windows, click>>
clientVars == <<cpc, permission, swRegistered, browserSub, csub, localStorage,
                cresult>>

vars == <<subscriptions, pc, i, subscription, results, successCount,
          failureCount, resp, res, nreq, startSubs, sent, interleaved, last,
          saasVars, clientVars, pageVars>>

dispatchVars == <<pc, i, subscription, results, successCount, failureCount,
                  resp, startSubs, sent>>

NoSub == [endpoint |-> <<0, 0>>, keys |-> 0]
NoResp == [status |-> 0]

EndpointsOf(subs) == {subs[k].endpoint : k \in 1..Len(subs)}

\* subscriptions.findIndex(sub => sub.endpoint === endpoint), 0-based, -1 if none
FindIndex(subs, endpoint) ==
  IF \E k \in 1..Len(subs) : subs[k].endpoint = endpoint
    THEN (CHOOSE k \in 1..Len(subs) :
            /\ subs[k].endpoint = endpoint
            /\ \A j \in 1..(k-1) : subs[j].endpoint # endpoint) - 1
    ELSE -1

\* subs.splice(idx, 1) for idx >= 0: removes the element at the 0-based index
\* idx, nothing when idx is past the end
Splice(subs, idx) ==
  IF idx < Len(subs)
    THEN [k \in 1..(Len(subs)-1) |-> IF k <= idx THEN subs[k] ELSE subs[k+1]]
    ELSE subs

\* everything but the registry, as it is after the server and the page start
InitOthers ==
  /\ pc = [p \in Procs |-> "idle"]
  /\ i = [p \in Procs |-> 0]
  /\ subscription = [p \in Procs |-> NoSub]
  /\ results = [p \in Procs |-> <<>>]
  /\ successCount = [p \in Procs |-> 0]
  /\ failureCount = [p \in Procs |-> 0]
  /\ resp = [p \in Procs |-> NoResp]
  /\ res = NoResp
  /\ nreq = 0
  /\ startSubs = [p \in Procs |-> <<>>]
  /\ sent = [p \in Procs |-> <<>>]
  /\ interleaved = [p \in Procs |-> FALSE]
  /\ last = [op |-> "none"]
  /\ saas = [pc |-> "idle"]
  /\ cpc = "idle"
  /\ permission = "default"
  /\ swRegistered = FALSE
  /\ browserSub = NoSub
  /\ csub = NoSub
  /\ localStorage = NoSub
  /\ cresult = [call |-> "none"]
  /\ oneSignalLoaded = FALSE
  /\ oneSignalPromise = "null"
  /\ scripts = 0
  /\ loadCalls = <<>>
  /\ windowOneSignal = FALSE
  /\ oscall = [fn |-> "none"]
  /\ logs = <<>>
  /\ nlog = 0
  /\ isLoading = FALSE
  /\ handler = [name |-> "none", pc |-> "idle", i |-> 0, outcome |-> "none"]
  /\ windows = <<>>
  /\ click = [pc |-> "none"]

Init ==
  /\ subscriptions = <<>>
  /\ InitOthers

\* Every handler suspended on a send sees the registry change under it.
MarkInterleaved(others) ==
  [p \in Procs |-> IF p \in others /\ pc[p] = "awaiting" THEN TRUE
                   ELSE interleaved[p]]

(* --------------------------- POST /api/subscribe ----------------------- *)

\* Mutant of Upsert: the findIndex test dropped, every subscription is pushed.
UpsertAlwaysPush(subs, sub) == Append(subs, sub)

\* Mutant of Upsert: `existingIndex > 0` for `existingIndex >= 0`.
UpsertSkipFirst(subs, sub) ==
  LET existingIndex == FindIndex(subs, sub.endpoint) IN
  IF existingIndex > 0
    THEN [subs EXCEPT ![existingIndex + 1] = sub]
    ELSE Append(subs, sub)

Upsert(subs, sub) ==
  LET existingIndex == FindIndex(subs, sub.endpoint) IN
  IF existingIndex >= 0
    THEN [subs EXCEPT ![existingIndex + 1] = sub]
    ELSE Append(subs, sub)

\* Mutant of InvalidSubscription: only the missing object is rejected.
InvalidSubscriptionNoEndpointTest(sub) == sub = Undefined

\* !subscription || !subscription.endpoint
InvalidSubscription(sub) ==
  \/ sub = Undefined
  \/ sub.endpoint = EmptyEndpoint

SubscribeHandler(sub) ==
  /\ nreq < MaxRequests
  /\ nreq' = nreq + 1
  /\ IF InvalidSubscription(sub)
       THEN /\ res' = [status |-> 400, error |-> "Invalid subscription data",
                       received |-> sub]
            /\ last' = [op |-> "subscribe", sub |-> sub,
                        log |-> "Invalid subscription data received"]
            /\ UNCHANGED <<subscriptions, interleaved>>
       ELSE /\ Len(Upsert(subscriptions, sub)) <= MaxSubs
            /\ subscriptions' = Upsert(subscriptions, sub)
            /\ last' = [op |-> "subscribe", sub |-> sub,
                        log |-> IF FindIndex(subscriptions, sub.endpoint) >= 0
                                  THEN "Updated existing subscription"
                                  ELSE "Added new subscription"]
            /\ res' = [status |-> 200, success |-> TRUE,
                       totalSubscriptions |-> Len(subscriptions')]
            /\ interleaved' = MarkInterleaved(Procs)
  /\ UNCHANGED <<dispatchVars, saasVars>>

Subscribe(sub) ==
  /\ SubscribeHandler(sub)
  /\ UNCHANGED <<clientVars, pageVars>>

(* ------------------------ DELETE /api/subscriptions -------------------- *)

ClearAll ==
  /\ nreq < MaxRequests
  /\ subscriptions' = <<>>
  /\ res' = [status |-> 200, success |-> TRUE, cleared |-> Len(subscriptions)]
  /\ last' = [op |-> "clear"]
  /\ nreq' = nreq + 1
  /\ interleaved' = MarkInterleaved(Procs)
  /\ UNCHANGED <<dispatchVars, saasVars, clientVars, pageVars>>

(* -------------------------- GET /api/subscriptions --------------------- *)

\* sub.keys ? Object.keys(sub.keys) : [] -- the names of the two Web Push
\* keys, never their values
KeyNames(keys) == IF keys = NoKeys THEN <<>> ELSE <<"p256dh", "auth">>

\* Mutant of Redact: the keys object itself is returned.
RedactWithKeyValues(sub) ==
  [endpoint |-> Truncate(sub.endpoint), keys |-> <<sub.keys>>]

Redact(sub) == [endpoint |-> Truncate(sub.endpoint), keys |-> KeyNames(sub.keys)]

\* res.json({count, subscriptions: subscriptions.map(...)})
ListResponse(subs) ==
  [status |-> 200,
   count |-> Len(subs),
   subscriptions |-> [k \in 1..Len(subs) |-> Redact(subs[k])]]

ListSubscriptions ==
  /\ res' = ListResponse(subscriptions)
  /\ last' = [op |-> "list"]
  /\ UNCHANGED <<subscriptions, nreq, interleaved, dispatchVars, saasVars,
                 clientVars, pageVars>>

(* ----------------------- POST /api/send-notification ------------------- *)

\* Mutant of Respond: total taken from the registry, not from results.
RespondRegistryTotal(rs, sc, fc) ==
  [status |-> 200,
   success |-> sc > 0,
   results |-> rs,
   summary |-> [total |-> Len(subscriptions), successful |-> sc, failed |-> fc]]

\* Mutant of Respond: success reported whatever the counts.
RespondAlwaysSuccess(rs, sc, fc) ==
  [status |-> 200,
   success |-> TRUE,
   results |-> rs,
   summary |-> [total |-> Len(rs), successful |-> sc, failed |-> fc]]

\* res.json({success, results, summary}) at the end of the handler
Respond(rs, sc, fc) ==
  [status |-> 200,
   success |-> sc > 0,
   results |-> rs,
   summary |-> [total |-> Len(rs), successful |-> sc, failed |-> fc]]

\* The handler up to its first await: the empty check, then the first
\* iteration of the loop up to the call of webpush.sendNotification.
StartDispatch(p) ==
  /\ pc[p] \in {"idle", "done"}
  /\ nreq < MaxRequests
  /\ nreq' = nreq + 1
  /\ startSubs' = [startSubs EXCEPT ![p] = subscriptions]
  /\ interleaved' = [interleaved EXCEPT ![p] = FALSE]
  /\ results' = [results EXCEPT ![p] = <<>>]
  /\ successCount' = [successCount EXCEPT ![p] = 0]
  /\ failureCount' = [failureCount EXCEPT ![p] = 0]
  /\ i' = [i EXCEPT ![p] = 0]
  /\ IF Len(subscriptions) = 0
       THEN /\ resp' = [resp EXCEPT ![p] =
                          [status |-> 400, error |-> "No subscriptions available"]]
            /\ pc' = [pc EXCEPT ![p] = "done"]
            /\ subscription' = [subscription EXCEPT ![p] = NoSub]
            /\ sent' = [sent EXCEPT ![p] = <<>>]
       ELSE /\ resp' = [resp EXCEPT ![p] = NoResp]
            /\ pc' = [pc EXCEPT ![p] = "awaiting"]
            /\ subscription' = [subscription EXCEPT ![p] = subscriptions[1]]
            /\ sent' = [sent EXCEPT ![p] = <<subscriptions[1]>>]
  /\ last' = [op |-> "start", p |-> p]
  /\ UNCHANGED <<subscriptions, res, saasVars, clientVars, pageVars>>

\* Mutant of RegistryAfterFailure: the splice left out, the `i--` kept.
RegistryAfterFailureNoSplice(subs, idx, statusCode) == subs

\* Mutant of IndexAfterFailure: the `i--` after splice left out.
IndexAfterFailureNoDecrement(idx, statusCode) == idx

\* index after the catch block: i-- when the status was 410
IndexAfterFailure(idx, statusCode) ==
  IF statusCode = 410 THEN idx - 1 ELSE idx

\* registry after the catch block: splice(i, 1) when the status was 410
RegistryAfterFailure(subs, idx, statusCode) ==
  IF statusCode = 410 THEN Splice(subs, idx) ELSE subs

\* The awaited send of handler p settles with statusCode; the handler runs
\* the rest of the iteration, i++, the loop test, and either starts the next
\* send or responds.
SendSettles(p, statusCode) ==
  /\ pc[p] = "awaiting"
  /\ LET ok == statusCode = 201
         entry == [subscription |-> Truncate(subscription[p].endpoint),
                   success |-> ok,
                   statusCode |-> statusCode]
         rs == Append(results[p], entry)
         sc == IF ok THEN successCount[p] + 1 ELSE successCount[p]
         fc == IF ok THEN failureCount[p] ELSE failureCount[p] + 1
         subs == IF ok THEN subscriptions
                 ELSE RegistryAfterFailure(subscriptions, i[p], statusCode)
         idx == (IF ok THEN i[p] ELSE IndexAfterFailure(i[p], statusCode)) + 1
     IN
       /\ subscriptions' = subs
       /\ results' = [results EXCEPT ![p] = rs]
       /\ successCount' = [successCount EXCEPT ![p] = sc]
       /\ failureCount' = [failureCount EXCEPT ![p] = fc]
       /\ i' = [i EXCEPT ![p] = idx]
       /\ interleaved' = IF subs # subscriptions
                           THEN MarkInterleaved(Procs \ {p})
                           ELSE interleaved
       /\ IF idx < Len(subs)
            THEN /\ subscription' = [subscription EXCEPT ![p] = subs[idx + 1]]
                 /\ sent' = [sent EXCEPT ![p] = Append(sent[p], subs[idx + 1])]
                 /\ pc' = pc
                 /\ resp' = resp
            ELSE /\ subscription' = [subscription EXCEPT ![p] = NoSub]
                 /\ sent' = sent
                 /\ pc' = [pc EXCEPT ![p] = "done"]
                 /\ resp' = [resp EXCEPT ![p] = Respond(rs, sc, fc)]
  /\ last' = [op |-> "settle", p |-> p, statusCode |-> statusCode,
              subscription |-> subscription[p]]
  /\ UNCHANGED <<res, nreq, startSubs, saasVars, clientVars, pageVars>>

Next ==
  \/ \E sub \in SubscribeBodies : Subscribe(sub)
  \/ ClearAll
  \/ ListSubscriptions
  \/ \E p \in Procs : StartDispatch(p)
  \/ \E p \in Procs, statusCode \in SendOutcomes : SendSettles(p, statusCode)

Spec == Init /\ [][Next]_vars

\* every awaited webpush.sendNotification eventually resolves or rejects
SendsSettle ==
  \A p \in Procs :
    WF_vars(\E statusCode \in SendOutcomes : SendSettles(p, statusCode))

\* the requests that write the registry, and the dispatches
NextLive ==
  \/ \E sub \in Subscriptions : Subscribe(sub)
  \/ ClearAll
  \/ \E p \in Procs : StartDispatch(p)
  \/ \E p \in Procs, statusCode \in SendOutcomes : SendSettles(p, statusCode)

SpecLive == Init /\ [][NextLive]_vars /\ SendsSettle

\* The same handlers on subscriptions that may carry no keys.
NextList ==
  \/ \E sub \in KeylessSubscriptions : Subscribe(sub)
  \/ ClearAll
  \/ ListSubscriptions
  \/ \E p \in Procs : StartDispatch(p)
  \/ \E p \in Procs, statusCode \in SendOutcomes : SendSettles(p, statusCode)

SpecList == Init /\ [][NextList]_vars

(***************************************************************************)
(* The OneSignal endpoints of server.js: /api/onesignal-send,              *)
(* /api/onesignal-broadcast and the conditional endpoints                  *)
(* /api/trading-signal, /api/price-alert, /api/market-event.  Each handler *)
(* runs synchronously up to `await fetch(...)` and is resumed by the       *)
(* vendor's reply.                                                         *)
(***************************************************************************)
NumUsers == 2
NumPrices == 3
MaxConfidence == 100
ConfidenceThreshold == 75

NoUser == 0
UserIds == {NoUser} \cup (1..NumUsers)
NoString == "undefined"
NoId == 0
NoPayload == [none |-> TRUE]

Prices == 1..NumPrices

TradingSignals ==
  [confidence : 0..MaxConfidence, action : {"buy", NoString},
   symbol : {"BTC", NoString}, userId : UserIds]

PriceAlerts ==
  [alertType : {"above", "below", "sideways", NoString},
   currentPrice : Prices, targetPrice : Prices,
   symbol : {"BTC", NoString}, userId : UserIds]

MarketEvents ==
  [severity : {"low", "normal", "high", "critical", NoString},
   title : {"Fed decision", NoString}, userId : UserIds]

DirectSends == [userId : UserIds]

Broadcasts == {[filters |-> NoString]}

Routes == {"onesignal-broadcast", "onesignal-send", "trading-signal",
           "price-alert", "market-event"}

ConditionalRoutes == {"trading-signal", "price-alert", "market-event"}

RequestsOf(route) ==
  CASE route = "onesignal-broadcast" -> Broadcasts
    [] route = "onesignal-send" -> DirectSends
    [] route = "trading-signal" -> TradingSignals
    [] route = "price-alert" -> PriceAlerts
    [] route = "market-event" -> MarketEvents

\* what `await fetch(...)` and `await response.json()` can produce: a reply
\* with response.ok and a body with or without an id, or a rejection
VendorReplies ==
  [settled : {"response"}, ok : BOOLEAN, id : {NoId, 1}]
    \cup {[settled |-> "rejected"]}

\* the browser subscriptions saved while the rule endpoints are exercised
RuleSubscriptions ==
  {sub \in Subscriptions : sub.endpoint[2] = 1 /\ sub.keys = 1}

ConfidenceTooLowInclusive(body) == body.confidence <= ConfidenceThreshold

ConfidenceTooLow(body) == body.confidence < ConfidenceThreshold

ShouldAlertStrict(body) ==
  \/ body.alertType = "above" /\ body.currentPrice > body.targetPrice
  \/ body.alertType = "below" /\ body.currentPrice < body.targetPrice

ShouldAlert(body) ==
  \/ body.alertType = "above" /\ body.currentPrice >= body.targetPrice
  \/ body.alertType = "below" /\ body.currentPrice <= body.targetPrice

Severity(body) ==
  IF body.severity = NoString THEN "normal" ELSE body.severity

SeverityTooLowOrRegistryEmpty(body) ==
  Severity(body) = "low" \/ subscriptions = <<>>

SeverityTooLow(body) == Severity(body) = "low"

EventIconHighUnlessNormal(body) ==
  IF Severity(body) # "normal" THEN "rotating-light" ELSE "chart"

EventIcon(body) ==
  IF Severity(body) = "high" THEN "rotating-light" ELSE "chart"

EventTitle(body) ==
  IF body.title = NoString THEN "Market Event" ELSE body.title

TargetAlwaysSegment(userId) ==
  IF userId # NoUser
    THEN [include_player_ids |-> <<userId>>,
          included_segments |-> <<"Subscribed Users">>]
    ELSE [include_player_ids |-> <<>>,
          included_segments |-> <<"Subscribed Users">>]

\* `if (userId) include_player_ids = [userId] else included_segments = [...]`
\* an absent property is the empty tuple
Target(userId) ==
  IF userId # NoUser
    THEN [include_player_ids |-> <<userId>>, included_segments |-> <<>>]
    ELSE [include_player_ids |-> <<>>,
          included_segments |-> <<"Subscribed Users">>]

\* the request is answered without a vendor send
Suppressed(route, body) ==
  CASE route = "trading-signal" -> ConfidenceTooLow(body)
    [] route = "price-alert" -> ~ShouldAlert(body)
    [] route = "market-event" -> SeverityTooLow(body)
    [] OTHER -> FALSE

\* building the notification throws a TypeError: action.toUpperCase() or
\* symbol.toLowerCase() of an absent field
BuildThrows(route, body) ==
  CASE route = "trading-signal" ->
         body.action = NoString \/ body.symbol = NoString
    [] route = "price-alert" -> body.symbol = NoString
    [] OTHER -> FALSE

OneSignalPayload(route, body) ==
  CASE route = "onesignal-broadcast" ->
         [heading |-> "title",
          include_player_ids |-> <<>>,
          included_segments |-> <<"Subscribed Users">>]
    [] route = "onesignal-send" ->
         [heading |-> "title",
          include_player_ids |-> <<body.userId>>,
          included_segments |-> <<>>]
    [] route = "trading-signal" ->
         [heading |-> "Signal",
          include_player_ids |-> Target(body.userId).include_player_ids,
          included_segments |-> Target(body.userId).included_segments]
    [] route = "price-alert" ->
         [heading |-> "Price Alert",
          include_player_ids |-> Target(body.userId).include_player_ids,
          included_segments |-> Target(body.userId).included_segments]
    [] route = "market-event" ->
         [heading |-> EventTitle(body), icon |-> EventIcon(body),
          include_player_ids |-> Target(body.userId).include_player_ids,
          included_segments |-> Target(body.userId).included_segments]

\* the handler's test of the vendor's reply
SaasSucceeds(route, reply) ==
  /\ reply.settled = "response"
  /\ reply.ok
  /\ route \in ConditionalRoutes \/ reply.id # NoId

SaasSuccessResponse(route, reply) ==
  IF route \in ConditionalRoutes
    THEN [status |-> 200, success |-> TRUE, notified |-> TRUE,
          notification |-> reply.id]
    ELSE [status |-> 200, success |-> TRUE, notificationId |-> reply.id]

\* the handler up to its first await, or to its response when it returns
\* or throws before
SaasRequest(route, body) ==
  /\ saas.pc \in {"idle", "done"}
  /\ saas' =
       IF route = "onesignal-send" /\ body.userId = NoUser
         THEN [pc |-> "done", route |-> route, body |-> body,
               payload |-> NoPayload, fetches |-> 0,
               resp |-> [status |-> 400, error |-> "User ID is required"]]
       ELSE IF Suppressed(route, body)
         THEN [pc |-> "done", route |-> route, body |-> body,
               payload |-> NoPayload, fetches |-> 0,
               resp |-> [status |-> 200, success |-> TRUE,
                         notified |-> FALSE]]
       ELSE IF BuildThrows(route, body)
         THEN [pc |-> "done", route |-> route, body |-> body,
               payload |-> NoPayload, fetches |-> 0,
               resp |-> [status |-> 500, error |-> "TypeError"]]
       ELSE [pc |-> "awaiting", route |-> route, body |-> body,
             payload |-> OneSignalPayload(route, body), fetches |-> 1,
             resp |-> NoResp]
  /\ UNCHANGED <<subscriptions, res, nreq, interleaved, last, dispatchVars,
                 clientVars, pageVars>>

\* the vendor's reply resumes the handler
SaasSettles(reply) ==
  /\ saas.pc = "awaiting"
  /\ saas' =
       [pc |-> "done", route |-> saas.route, body |-> saas.body,
        payload |-> saas.payload, fetches |-> saas.fetches,
        reply |-> reply,
        resp |-> IF SaasSucceeds(saas.route, reply)
                   THEN SaasSuccessResponse(saas.route, reply)
                   ELSE [status |-> 500, error |-> "notification failed"]]
  /\ UNCHANGED <<subscriptions, res, nreq, interleaved, last, dispatchVars,
                 clientVars, pageVars>>

\* the rule endpoints are exercised against an empty registry and against
\* registries that hold a saved browser subscription
RuleRegistries == {<<>>} \cup {<<sub>> : sub \in RuleSubscriptions}

InitRules ==
  /\ subscriptions \in RuleRegistries
  /\ InitOthers

NextRules ==
  \/ \E route \in Routes : \E body \in RequestsOf(route) :
       SaasRequest(route, body)
  \/ \E reply \in VendorReplies : SaasSettles(reply)

SpecRules == InitRules /\ [][NextRules]_vars

(***************************************************************************)
(* The browser client, src/utils/pushNotifications.ts:                     *)
(* subscribeToPushNotifications and unsubscribeFromPushNotifications, one  *)
(* step per await.                                                         *)
(***************************************************************************)
serverVars == <<subscriptions, res, nreq, interleaved, last, dispatchVars,
                saasVars>>

\* a `keys` object that lacks auth, and one that lacks p256dh
KeysWithoutAuth == -1
KeysWithoutP256dh == -2

\* what pushManager.subscribe() resolves with: a subscription, possibly one
\* whose JSON has no endpoint, no keys, or keys that lack a member
PushManagerSubscriptions ==
  RuleSubscriptions
    \cup [endpoint : {<<1, 1>>},
          keys : {NoKeys, KeysWithoutAuth, KeysWithoutP256dh}]
    \cup {[endpoint |-> EmptyEndpoint, keys |-> 1]}

\* Mutant of InvalidSubscriptionJSON: only p256dh is looked for.
InvalidSubscriptionJSONAuthNotTested(sub) ==
  sub.endpoint = EmptyEndpoint \/ sub.keys \in {NoKeys, KeysWithoutP256dh}

\* !subscriptionJSON.endpoint || !keys?.p256dh || !keys?.auth
InvalidSubscriptionJSON(sub) ==
  \/ sub.endpoint = EmptyEndpoint
  \/ sub.keys \in {NoKeys, KeysWithoutP256dh}
  \/ sub.keys \in {NoKeys, KeysWithoutAuth}

\* how the POST of sendSubscriptionToServer can end: the server handled it
\* and the client read the answer; the server handled it and the answer was
\* lost; the request never reached the server
PostOutcomes == {"answered", "lost", "failed"}

\* Mutant of StoredAfterPost: the item is stored whatever the POST did.
StoredAfterPostAlways(outcome, result, sub, item) == sub

\* localStorage.setItem('pushSubscription', ...) only `if (result.success)`
StoredAfterPost(outcome, result, sub, item) ==
  IF outcome = "answered" /\ result.status = 200 /\ result.success
    THEN sub
    ELSE item

Rejected(call) == [call |-> call, settled |-> "rejected"]

\* Step 6 and the call of step 7, once `subscription` is known
ValidateThenPost(sub) ==
  IF InvalidSubscriptionJSON(sub)
    THEN cpc' = "idle" /\ cresult' = Rejected("subscribe")
    ELSE cpc' = "posting" /\ UNCHANGED cresult

ClientSubscribe ==
  /\ cpc = "idle"
  /\ cpc' = "registering"
  /\ csub' = NoSub
  /\ cresult' = [call |-> "subscribe", settled |-> "pending"]
  /\ UNCHANGED <<permission, swRegistered, browserSub, localStorage,
                 serverVars, pageVars>>

\* Step 1 settles; step 2 runs up to Notification.requestPermission()
RegisterSettles(ok) ==
  /\ cpc = "registering"
  /\ IF ~ok
       THEN /\ cpc' = "idle" /\ cresult' = Rejected("subscribe")
            /\ UNCHANGED swRegistered
       ELSE /\ swRegistered' = TRUE
            /\ CASE permission = "granted" ->
                      cpc' = "getSubscription" /\ UNCHANGED cresult
                 [] permission = "denied" ->
                      cpc' = "idle" /\ cresult' = Rejected("subscribe")
                 [] OTHER -> cpc' = "prompting" /\ UNCHANGED cresult
  /\ UNCHANGED <<permission, browserSub, csub, localStorage, serverVars,
                 pageVars>>

PermissionSettles(answer) ==
  /\ cpc = "prompting"
  /\ permission' = answer
  /\ IF answer = "granted"
       THEN cpc' = "getSubscription" /\ UNCHANGED cresult
       ELSE cpc' = "idle" /\ cresult' = Rejected("subscribe")
  /\ UNCHANGED <<swRegistered, browserSub, csub, localStorage, serverVars,
                 pageVars>>

\* Step 4: pushManager.getSubscription() settles; an expired subscription is
\* unsubscribed and dropped
GetSubscriptionSettles(expired) ==
  /\ cpc = "getSubscription"
  /\ expired => browserSub # NoSub
  /\ IF browserSub # NoSub /\ ~expired
       THEN /\ csub' = browserSub
            /\ ValidateThenPost(browserSub)
            /\ UNCHANGED browserSub
       ELSE /\ browserSub' = NoSub
            /\ csub' = NoSub
            /\ cpc' = "creating"
            /\ UNCHANGED cresult
  /\ UNCHANGED <<permission, swRegistered, localStorage, serverVars, pageVars>>

\* Step 5: pushManager.subscribe() settles, with a subscription or (NoSub)
\* a rejection
CreateSettles(created) ==
  /\ cpc = "creating"
  /\ IF created = NoSub
       THEN /\ cpc' = "idle" /\ cresult' = Rejected("subscribe")
            /\ UNCHANGED <<browserSub, csub>>
       ELSE /\ browserSub' = created
            /\ csub' = created
            /\ ValidateThenPost(created)
  /\ UNCHANGED <<permission, swRegistered, localStorage, serverVars, pageVars>>

\* Step 7: sendSubscriptionToServer settles.  When the POST reaches the
\* server its handler runs; the item is stored only on result.success, and
\* the subscription is returned either way.
PostSettles(outcome) ==
  /\ cpc = "posting"
  /\ IF outcome \in {"answered", "lost"}
       THEN /\ SubscribeHandler(csub)
            /\ localStorage' = StoredAfterPost(outcome, res', csub,
                                               localStorage)
       ELSE UNCHANGED <<localStorage, serverVars>>
  /\ cpc' = "idle"
  /\ cresult' = [call |-> "subscribe", settled |-> "resolved",
                 value |-> csub, post |-> outcome]
  /\ UNCHANGED <<permission, swRegistered, browserSub, csub, pageVars>>

\* unsubscribeFromPushNotifications up to subscription.unsubscribe(); with
\* no registration or no active subscription it returns true at once
ClientUnsubscribe ==
  /\ cpc = "idle"
  /\ IF ~swRegistered \/ browserSub = NoSub
       THEN /\ cresult' = [call |-> "unsubscribe", settled |-> "resolved",
                           value |-> TRUE, unsubscribed |-> NoSub]
            /\ UNCHANGED <<cpc, csub>>
       ELSE /\ cpc' = "unsubscribing"
            /\ csub' = browserSub
            /\ cresult' = [call |-> "unsubscribe", settled |-> "pending"]
  /\ UNCHANGED <<permission, swRegistered, browserSub, localStorage,
                 serverVars, pageVars>>

\* subscription.unsubscribe() settles
UnsubscribeSettles(unsubscribed) ==
  /\ cpc = "unsubscribing"
  /\ cpc' = "idle"
  /\ IF unsubscribed
       THEN /\ browserSub' = NoSub
            /\ localStorage' = NoSub
            /\ cresult' = [call |-> "unsubscribe", settled |-> "resolved",
                           value |-> TRUE, unsubscribed |-> csub]
       ELSE /\ cresult' = Rejected("unsubscribe")
            /\ UNCHANGED <<browserSub, localStorage>>
  /\ UNCHANGED <<permission, swRegistered, csub, serverVars, pageVars>>

NextClient ==
  \/ ClientSubscribe
  \/ \E ok \in BOOLEAN : RegisterSettles(ok)
  \/ \E answer \in {"granted", "denied", "default"} :
       PermissionSettles(answer)
  \/ \E expired \in BOOLEAN : GetSubscriptionSettles(expired)
  \/ \E created \in PushManagerSubscriptions \cup {NoSub} :
       CreateSettles(created)
  \/ \E outcome \in PostOutcomes : PostSettles(outcome)
  \/ ClientUnsubscribe
  \/ \E unsubscribed \in BOOLEAN : UnsubscribeSettles(unsubscribed)
  \/ StartDispatch(1)
  \/ \E statusCode \in SendOutcomes : SendSettles(1, statusCode)

SpecClient == Init /\ [][NextClient]_vars

(***************************************************************************)
(* The OneSignal utilities of the page, src/utils/oneSignal.ts.            *)
(***************************************************************************)
MaxLoadCalls == 3

uiVars == <<logs, nlog, isLoading, handler>>
swVars == <<windows, click>>
loaderVars == <<oneSignalLoaded, oneSignalPromise, scripts, loadCalls>>

\* Mutant of ShouldInject: the test of oneSignalPromise left out.
ShouldInjectUnlessLoaded(loaded, promise) == ~loaded

\* neither `if (oneSignalLoaded) return` nor `if (oneSignalPromise) return`
ShouldInject(loaded, promise) == ~loaded /\ promise = "null"

\* One call of loadOneSignal.  created: document.createElement and
\* appendChild did not throw inside the promise executor.
LoadOneSignal(created) ==
  /\ Len(loadCalls) < MaxLoadCalls
  /\ IF ShouldInject(oneSignalLoaded, oneSignalPromise)
       THEN /\ oneSignalPromise' = IF created THEN "pending" ELSE "rejected"
            /\ scripts' = IF created THEN scripts + 1 ELSE scripts
            /\ loadCalls' = Append(loadCalls, "new promise")
       ELSE /\ created
            /\ loadCalls' = Append(loadCalls,
                                   IF oneSignalLoaded THEN "returned"
                                   ELSE "same promise")
            /\ UNCHANGED <<oneSignalPromise, scripts>>
  /\ UNCHANGED <<oneSignalLoaded, windowOneSignal, oscall, uiVars, swVars,
                 serverVars, clientVars>>

\* script.onload
ScriptOnload ==
  /\ oneSignalPromise = "pending"
  /\ oneSignalLoaded' = TRUE
  /\ oneSignalPromise' = "resolved"
  /\ UNCHANGED <<scripts, loadCalls, windowOneSignal, oscall, uiVars, swVars,
                 serverVars, clientVars>>

\* script.onerror
ScriptOnerror ==
  /\ oneSignalPromise = "pending"
  /\ oneSignalPromise' = "rejected"
  /\ UNCHANGED <<oneSignalLoaded, scripts, loadCalls, windowOneSignal, oscall,
                 uiVars, swVars, serverVars, clientVars>>

\* initOneSignal after `await loadOneSignal()`: the deferred callback runs
\* OneSignal.init, which resolves (ok) or throws
InitSettles(ok) ==
  /\ oneSignalLoaded
  /\ loadCalls # <<>>
  /\ windowOneSignal' = (windowOneSignal \/ ok)
  /\ oscall' = [fn |-> "initOneSignal", result |-> ok]
  /\ UNCHANGED <<loaderVars, uiVars, swVars, serverVars, clientVars>>

(* --------------------------- getOneSignalStatus ------------------------ *)

\* what the SDK answers to the reads of getOneSignalStatus
StatusEnvs ==
  [pushSupported : {"true", "false", "throws"},
   optedIn : {"true", "false", "absent", "throws"},
   userId : UserIds,
   userIdThrows : BOOLEAN]

\* Mutant of StatusOverride: the fallback left out.
StatusNoOverride(isSubscribed, userId) == isSubscribed

\* if (!isSubscribed && userId) isSubscribed = true
StatusOverride(isSubscribed, userId) ==
  IF ~isSubscribed /\ userId # NoUser THEN TRUE ELSE isSubscribed

OneSignalStatus(initialized, perm, env) ==
  IF ~initialized
    THEN [isSupported |-> FALSE, isInitialized |-> FALSE,
          isPushSupported |-> FALSE, notificationPermission |-> "default",
          isSubscribed |-> FALSE, userId |-> NoUser]
    ELSE LET userId == IF env.userIdThrows THEN NoUser ELSE env.userId
         IN  [isSupported |-> TRUE, isInitialized |-> TRUE,
              isPushSupported |-> env.pushSupported # "false",
              notificationPermission |-> perm,
              isSubscribed |-> StatusOverride(env.optedIn = "true", userId),
              userId |-> userId]

GetOneSignalStatus(env) ==
  /\ oscall' = [fn |-> "getOneSignalStatus", env |-> env,
                initialized |-> windowOneSignal,
                result |-> OneSignalStatus(windowOneSignal, permission, env)]
  /\ UNCHANGED <<loaderVars, windowOneSignal, uiVars, swVars, serverVars,
                 clientVars>>

(* --------------------------- subscribeOneSignal ------------------------ *)

\* what the browser and the SDK answer to the calls of subscribeOneSignal:
\* isPushNotificationsEnabled; Notification.requestPermission; the first
\* subscription method the SDK object offers ("none": it offers none); the
\* first prompt method of the fallback; the final opted-in and user id reads
SubscribeEnvs ==
  [enabled : {"true", "false", "throws"},
   answer : {"granted", "denied", "default", "throws"},
   method : {"ok", "throws", "none"},
   prompt : {"ok", "throws", "none"},
   finalOptedIn : {"true", "false", "throws"},
   finalUserId : {NoUser, 1}]

Unread ==
  [enabled |-> "unread", answer |-> "unread", method |-> "unread",
   prompt |-> "unread", finalOptedIn |-> "unread", finalUserId |-> NoUser]

\* Mutant of PermissionRefused: a refused permission request is ignored.
PermissionRefusedNever(perm, answer) == FALSE

\* Notification.permission !== 'granted' and the request is not granted
PermissionRefused(perm, answer) == perm # "granted" /\ answer # "granted"

\* The run of subscribeOneSignal: the answers it consumed and its result.
SubscribeOneSignalRun(initialized, perm, env) ==
  LET e1 == [Unread EXCEPT !.enabled = env.enabled]
      e2 == IF perm # "granted" THEN [e1 EXCEPT !.answer = env.answer]
            ELSE e1
      e3 == [e2 EXCEPT !.method = env.method]
      e4 == [e3 EXCEPT !.prompt = env.prompt]
      final(e) == [e EXCEPT !.finalOptedIn = env.finalOptedIn,
                            !.finalUserId = IF env.finalOptedIn = "throws"
                                              THEN NoUser
                                              ELSE env.finalUserId]
  IN  IF ~initialized THEN [reads |-> Unread, result |-> FALSE]
      ELSE IF env.enabled = "true" THEN [reads |-> e1, result |-> TRUE]
      ELSE IF PermissionRefused(perm, env.answer)
        THEN [reads |-> e2, result |-> FALSE]
      ELSE IF env.method = "ok" THEN [reads |-> final(e3), result |-> TRUE]
      ELSE IF env.prompt = "ok" THEN [reads |-> final(e4), result |-> TRUE]
      ELSE [reads |-> e4, result |-> FALSE]

SubscribeOneSignal(env) ==
  LET run == SubscribeOneSignalRun(windowOneSignal, permission, env) IN
  /\ oscall' = [fn |-> "subscribeOneSignal", env |-> run.reads,
                initialized |-> windowOneSignal,
                settled |-> "resolved", result |-> run.result]
  /\ permission' = IF run.reads.answer \in {"granted", "denied", "default"}
                     THEN run.reads.answer
                     ELSE permission
  /\ UNCHANGED <<loaderVars, windowOneSignal, uiVars, swVars, serverVars,
                 cpc, swRegistered, browserSub, csub, localStorage, cresult>>

(* ------------------------ sendOneSignalNotification -------------------- *)

\* the user id the SDK gives; how POST /api/onesignal-send ends: 200 with
\* success, a 2xx body without success, a non-2xx answer, a failed request;
\* whether `new Notification(...)` works
SendEnvs ==
  [userId : UserIds,
   reply : {"success", "no success", "not ok", "rejected"},
   notification : {"shown", "throws"}]

\* Mutant of FallbackShown: the permission is not looked at.
FallbackShownWhateverPermission(perm, notification) == notification = "shown"

\* Notification.permission === 'granted' and new Notification(...) worked
FallbackShown(perm, notification) ==
  perm = "granted" /\ notification = "shown"

SendOneSignalRun(initialized, perm, env) ==
  LET fetched == initialized /\ env.userId # NoUser
      sentOk == fetched /\ env.reply = "success"
  IN  [fetched |-> fetched,
       userId |-> IF initialized THEN env.userId ELSE NoUser,
       reply |-> IF fetched THEN env.reply ELSE "unread",
       notification |-> IF ~sentOk /\ perm = "granted"
                          THEN env.notification ELSE "unread",
       result |-> sentOk \/ FallbackShown(perm, env.notification)]

SendOneSignalNotification(env) ==
  /\ oscall' = [fn |-> "sendOneSignalNotification",
                env |-> SendOneSignalRun(windowOneSignal, permission, env),
                initialized |-> windowOneSignal,
                settled |-> "resolved",
                result |-> SendOneSignalRun(windowOneSignal, permission,
                                            env).result]
  /\ UNCHANGED <<loaderVars, windowOneSignal, uiVars, swVars, serverVars,
                 clientVars>>

NextOneSignal ==
  \/ \E created \in BOOLEAN : LoadOneSignal(created)
  \/ ScriptOnload
  \/ ScriptOnerror
  \/ \E ok \in BOOLEAN : InitSettles(ok)
  \/ \E env \in StatusEnvs : GetOneSignalStatus(env)
  \/ \E env \in SubscribeEnvs : SubscribeOneSignal(env)
  \/ \E env \in SendEnvs : SendOneSignalNotification(env)

SpecOneSignal == Init /\ [][NextOneSignal]_vars

(***************************************************************************)
(* The tester component, src/components/PushNotificationTester.tsx: its    *)
(* activity log and its button handlers.                                   *)
(***************************************************************************)
\* Log entries are told apart by a number that is reused only after more
\* than MaxLogIds - 1 newer entries were added.
MaxLogIds == 52

\* prev.slice(-49)
KeptLogs == 49

NumNotifications == 3

Handlers ==
  {"handleSubscribe", "handleSendTest", "handleSendMultiple",
   "handleUnsubscribe", "handleOneSignalSubscribe", "handleOneSignalTest",
   "handleOneSignalUnsubscribe"}

\* the handlers that refresh the status after a success
RefreshingHandlers ==
  {"handleSubscribe", "handleUnsubscribe", "handleOneSignalSubscribe",
   "handleOneSignalUnsubscribe"}

\* how an awaited operation ends: with a truthy value, a falsy one, or by
\* throwing
Outcomes == {"truthy", "falsy", "throws"}

\* prev.slice(-n)
Slice(prev, n) ==
  IF Len(prev) <= n THEN prev ELSE SubSeq(prev, Len(prev) - n + 1, Len(prev))

\* Mutant of Updater: one entry too many is kept.
UpdaterSliceFifty(prev, entry) == Append(Slice(prev, KeptLogs + 1), entry)

\* prev => [...prev.slice(-49), entry]
Updater(prev, entry) == Append(Slice(prev, KeptLogs), entry)

NextLogId(n) == (n % MaxLogIds) + 1

\* Of the messages only 'Logs cleared' is told apart from the others.
Entry(n, message) ==
  [id |-> NextLogId(n),
   message |-> IF message = "Logs cleared" THEN message ELSE "other"]

\* addLog called with the messages msgs, one after the other, on the log l
RECURSIVE AddLogs(_, _, _)
AddLogs(l, n, msgs) ==
  IF msgs = <<>> THEN l
  ELSE AddLogs(Updater(l, Entry(n, Head(msgs))), NextLogId(n), Tail(msgs))

RECURSIVE LogIdAfter(_, _)
LogIdAfter(n, msgs) ==
  IF msgs = <<>> THEN n ELSE LogIdAfter(NextLogId(n), Tail(msgs))

\* Mutant of LoadingAfter: no finally, a throw skips setIsLoading(false).
LoadingAfterUnlessThrows(outcome) == outcome = "throws"

\* finally { setIsLoading(false) }
LoadingAfter(outcome) == FALSE

\* A button is clicked: its handler sets isLoading, logs and calls the
\* operation it awaits.  The buttons are disabled while isLoading.
HandlerStart(h) ==
  /\ ~isLoading
  /\ handler.pc = "idle"
  /\ isLoading' = TRUE
  /\ logs' = AddLogs(logs, nlog, <<"starting">>)
  /\ nlog' = LogIdAfter(nlog, <<"starting">>)
  /\ handler' = [name |-> h, pc |-> "awaiting", i |-> 0, outcome |-> "none"]
  /\ UNCHANGED <<loaderVars, windowOneSignal, oscall, swVars, serverVars,
                 clientVars>>

\* The awaited operation of the running handler settles.
OperationSettles(outcome) ==
  /\ handler.pc = "awaiting"
  /\ LET refresh == handler.name \in RefreshingHandlers /\ outcome = "truthy"
         more == /\ handler.name = "handleSendMultiple"
                 /\ outcome # "throws"
                 /\ handler.i < NumNotifications - 1
         msgs == IF handler.name = "handleSendMultiple"
                   THEN IF outcome = "throws" THEN <<"error">>
                        ELSE IF more THEN <<"sent">>
                        ELSE <<"sent", "success">>
                 ELSE IF outcome # "truthy" THEN <<"error">>
                 ELSE IF refresh THEN <<"success", "checking">>
                 ELSE <<"success">>
     IN  /\ logs' = AddLogs(logs, nlog, msgs)
         /\ nlog' = LogIdAfter(nlog, msgs)
         /\ handler' = [handler EXCEPT
                          !.pc = IF refresh THEN "refreshing"
                                 ELSE IF more THEN "delaying"
                                 ELSE "idle",
                          !.outcome = outcome]
         /\ isLoading' = IF refresh \/ more THEN isLoading
                         ELSE LoadingAfter(outcome)
  /\ UNCHANGED <<loaderVars, windowOneSignal, oscall, swVars, serverVars,
                 clientVars>>

\* the one-second delay between two notifications of handleSendMultiple
DelayElapses ==
  /\ handler.pc = "delaying"
  /\ handler' = [handler EXCEPT !.pc = "awaiting", !.i = @ + 1]
  /\ UNCHANGED <<logs, nlog, isLoading, loaderVars, windowOneSignal, oscall,
                 swVars, serverVars, clientVars>>

\* `await checkStatus()` after a success: checkStatus catches its own
\* errors
StatusSettles(ok) ==
  /\ handler.pc = "refreshing"
  /\ logs' = AddLogs(logs, nlog, <<IF ok THEN "success" ELSE "error">>)
  /\ nlog' = LogIdAfter(nlog, <<IF ok THEN "success" ELSE "error">>)
  /\ handler' = [handler EXCEPT !.pc = "idle"]
  /\ isLoading' = LoadingAfter("truthy")
  /\ UNCHANGED <<loaderVars, windowOneSignal, oscall, swVars, serverVars,
                 clientVars>>

\* clearLogs: setLogs([]) and then addLog('info', 'Logs cleared')
ClearLogs ==
  /\ logs' = AddLogs(<<>>, nlog, <<"Logs cleared">>)
  /\ nlog' = LogIdAfter(nlog, <<"Logs cleared">>)
  /\ UNCHANGED <<isLoading, handler, loaderVars, windowOneSignal, oscall,
                 swVars, serverVars, clientVars>>

NextUI ==
  \/ \E h \in Handlers : HandlerStart(h)
  \/ \E outcome \in Outcomes : OperationSettles(outcome)
  \/ DelayElapses
  \/ \E ok \in BOOLEAN : StatusSettles(ok)
  \/ ClearLogs

SpecUI == Init /\ [][NextUI]_vars

\* every awaited operation, status refresh and delay settles
OperationsSettle ==
  /\ WF_vars(\E outcome \in Outcomes : OperationSettles(outcome))
  /\ WF_vars(\E ok \in BOOLEAN : StatusSettles(ok))
  /\ WF_vars(DelayElapses)

SpecUISettling == Init /\ [][NextUI]_vars /\ OperationsSettle

(***************************************************************************)
(* The service worker's notificationclick handler, server.js:1058-1099.    *)
(***************************************************************************)
MaxWindows == 2

\* WindowClient.url is the absolute URL of the page
ClientUrls ==
  {"https://react.signalstrading.app/",
   "https://react.signalstrading.app/market-events"}

\* The url of the notification's data: absent, a path as the server and the
\* push handler put it, or an absolute URL.
DataUrls ==
  {NoString, "/", "/market-events", "https://react.signalstrading.app/"}

ClickActions == {"dismiss", "open", ""}

\* the URL clients.openWindow(url) navigates to: a path is resolved against
\* the service worker's origin
Absolute(url) ==
  CASE url = "/" -> "https://react.signalstrading.app/"
    [] url = "/market-events" ->
         "https://react.signalstrading.app/market-events"
    [] OTHER -> url

\* event.notification.data?.url || "/"
UrlToOpen(dataUrl) == IF dataUrl = NoString THEN "/" ELSE dataUrl

\* client.url === urlToOpen && "focus" in client
ShouldFocus(client, urlToOpen) ==
  client.url = urlToOpen /\ "focus" \in DOMAIN client

\* the first client of the list the loop focuses, 0 when it focuses none
FirstToFocus(clientList, urlToOpen) ==
  LET found == {j \in 1..Len(clientList) :
                  ShouldFocus(clientList[j], urlToOpen)}
  IN  IF found = {} THEN 0
      ELSE CHOOSE j \in found : \A k \in found : j <= k

\* A page of the app is opened or closed by the user.
UserOpensWindow(url) ==
  /\ Len(windows) < MaxWindows
  /\ windows' = Append(windows, [url |-> url, focus |-> TRUE])
  /\ UNCHANGED <<click, loaderVars, windowOneSignal, oscall, uiVars,
                 serverVars, clientVars>>

UserClosesWindow(j) ==
  /\ j \in 1..Len(windows)
  /\ windows' = SubSeq(windows, 1, j - 1) \o
                SubSeq(windows, j + 1, Len(windows))
  /\ UNCHANGED <<click, loaderVars, windowOneSignal, oscall, uiVars,
                 serverVars, clientVars>>

\* notificationclick: close, return on 'dismiss', else clients.matchAll
NotificationClick(action, dataUrl) ==
  /\ click.pc # "matching"
  /\ Len(windows) < MaxWindows
  /\ click' = [pc |-> IF action = "dismiss" THEN "done" ELSE "matching",
               action |-> action,
               closed |-> TRUE,
               urlToOpen |-> UrlToOpen(dataUrl),
               matchAll |-> IF action = "dismiss" THEN "not called"
                            ELSE "pending",
               clientList |-> <<>>,
               openWindow |-> FALSE,
               focused |-> 0,
               opened |-> <<>>]
  /\ UNCHANGED <<windows, loaderVars, windowOneSignal, oscall, uiVars,
                 serverVars, clientVars>>

\* clients.matchAll settles; openWindow: clients.openWindow exists
MatchAllSettles(resolved, openWindow) ==
  /\ click.pc = "matching"
  /\ LET j == FirstToFocus(windows, click.urlToOpen)
         opens == resolved /\ j = 0 /\ openWindow
     IN  /\ click' = [click EXCEPT
                        !.pc = "done",
                        !.matchAll = IF resolved THEN "resolved"
                                     ELSE "rejected",
                        !.clientList = IF resolved THEN windows ELSE <<>>,
                        !.openWindow = openWindow,
                        !.focused = IF resolved THEN j ELSE 0,
                        !.opened = IF opens THEN <<Absolute(click.urlToOpen)>>
                                   ELSE <<>>]
         /\ windows' = IF opens
                         THEN Append(windows,
                                     [url |-> Absolute(click.urlToOpen),
                                      focus |-> TRUE])
                         ELSE windows
  /\ UNCHANGED <<loaderVars, windowOneSignal, oscall, uiVars, serverVars,
                 clientVars>>

NextSW ==
  \/ \E url \in ClientUrls : UserOpensWindow(url)
  \/ \E j \in 1..MaxWindows : UserClosesWindow(j)
  \/ \E action \in ClickActions, dataUrl \in DataUrls :
       NotificationClick(action, dataUrl)
  \/ \E resolved \in BOOLEAN, openWindow \in BOOLEAN :
       MatchAllSettles(resolved, openWindow)

SpecSW == Init /\ [][NextSW]_vars

(* ------------------------------ properties ----------------------------- *)

Responded(p) == resp[p].status = 200

\* C1: every send-notification response that went through the send loop has
\* summary.successful + summary.failed = summary.total, and summary.total is
\* the number of entries of results.
SummaryCountsAddUp ==
  \A p \in Procs : Responded(p) =>
    /\ resp[p].summary.successful + resp[p].summary.failed = resp[p].summary.total
    /\ resp[p].summary.total = Len(resp[p].results)

\* A response over a mix of a successful, a failed and a 410 send.
SummaryMixedWitness ==
  \E p \in Procs :
    /\ Responded(p)
    /\ resp[p].summary.total = 3
    /\ \E a, b, c \in 1..3 :
         /\ resp[p].results[a].statusCode = 201
         /\ resp[p].results[b].statusCode = 410
         /\ resp[p].results[c].statusCode = 500

\* C2: summary.total of a response is the number of records the registry held
\* when the call started, whatever was handled while it was suspended.
TotalIsStartCount ==
  \A p \in Procs : Responded(p) => resp[p].summary.total = Len(startSubs[p])

\* C3: no two records of the registry have the same endpoint.
UniqueEndpoints ==
  \A j, k \in 1..Len(subscriptions) :
    subscriptions[j].endpoint = subscriptions[k].endpoint => j = k

\* After a dispatch removed a record on 410, a subscribe with a registered
\* endpoint replaced the record of that endpoint in place.
UpsertReplacedWitness ==
  /\ last.op = "subscribe"
  /\ last.log = "Updated existing subscription"
  /\ subscriptions[FindIndex(subscriptions, last.sub.endpoint) + 1] = last.sub
  /\ \E p \in Procs :
       /\ Responded(p)
       /\ \E k \in 1..Len(resp[p].results) : resp[p].results[k].statusCode = 410

\* C4: an accepted subscribe whose endpoint is registered leaves the count
\* unchanged, one whose endpoint is new raises it by 1, and totalSubscriptions
\* of the response is the count after the operation.
UpsertCount ==
  [][(last'.op = "subscribe" /\ res'.status = 200) =>
       /\ (last'.sub.endpoint \in EndpointsOf(subscriptions)
             => Len(subscriptions') = Len(subscriptions))
       /\ (last'.sub.endpoint \notin EndpointsOf(subscriptions)
             => Len(subscriptions') = Len(subscriptions) + 1)
       /\ res'.totalSubscriptions = Len(subscriptions')]_vars

\* Both cases happened: the last subscribe replaced a record with other keys
\* in a registry that earlier subscribes had grown to MaxSubs records.
UpsertCountWitness ==
  /\ last.op = "subscribe"
  /\ last.log = "Updated existing subscription"
  /\ res.totalSubscriptions = 3
  /\ Len(subscriptions) = 3

\* C5: when a send to a target fails with status 410, the record of that
\* target is no longer in the registry once the handler has dealt with the
\* failure (so a following GET /api/subscriptions does not list it).
GoneTargetIsRemoved ==
  [][(last'.op = "settle" /\ last'.statusCode = 410)
       => last'.subscription.endpoint \notin EndpointsOf(subscriptions')]_vars

\* C6: a record leaves the registry only by clear-all or because a send to
\* that same record returned 410.
RemovedOnlyByClearOrOwn410 ==
  [][\A e \in EndpointsOf(subscriptions) \ EndpointsOf(subscriptions') :
       \/ last'.op = "clear"
       \/ /\ last'.op = "settle"
          /\ last'.statusCode = 410
          /\ last'.subscription.endpoint = e]_vars

\* C7: a send-notification call on an empty registry is answered 400 'No
\* subscriptions available' without any send; a call on a non-empty registry
\* is answered with a summary of total > 0, which in case every send failed
\* has successful = 0, failed = total and success = false.
EmptyIsNotAllFailed ==
  \A p \in Procs :
    /\ (pc[p] = "done" /\ Len(startSubs[p]) = 0)
         => /\ resp[p] = [status |-> 400, error |-> "No subscriptions available"]
            /\ sent[p] = <<>>
    /\ (pc[p] = "done" /\ Len(startSubs[p]) > 0)
         => /\ Responded(p)
            /\ resp[p].summary.total > 0
            /\ Len(sent[p]) > 0
            /\ ((\A k \in 1..Len(resp[p].results) : ~resp[p].results[k].success)
                  => /\ resp[p].summary.successful = 0
                     /\ resp[p].summary.failed = resp[p].summary.total
                     /\ resp[p].success = FALSE)

\* One call was answered 400 on the empty registry and another one answered
\* with a summary of failures only.
EmptyAndAllFailedWitness ==
  \E p, q \in Procs :
    /\ resp[p].status = 400
    /\ Responded(q)
    /\ resp[q].summary.successful = 0
    /\ resp[q].summary.failed = resp[q].summary.total

\* C8: in a dispatch with no interleaved registry operation every record of
\* the registry at the start gets exactly one send attempt and exactly one
\* entry of results, in order, also after failures and 410 removals.
EachTargetSentOnce ==
  \A p \in Procs : (Responded(p) /\ ~interleaved[p]) =>
    /\ sent[p] = startSubs[p]
    /\ Len(resp[p].results) = Len(startSubs[p])
    /\ \A k \in 1..Len(startSubs[p]) :
         resp[p].results[k].subscription = Truncate(startSubs[p][k].endpoint)

\* An uninterleaved dispatch over three records in which the first send
\* failed with 410 and a later one failed with another status.
SentOnceAfterRemovalWitness ==
  \E p \in Procs :
    /\ Responded(p)
    /\ ~interleaved[p]
    /\ Len(startSubs[p]) = 3
    /\ resp[p].results[1].statusCode = 410
    /\ resp[p].results[2].statusCode = NoStatus
    /\ Len(subscriptions) = 2

\* C9: a step of a dispatch changes the registry only by removing the record
\* whose send reported 410; the other records stay, unchanged and in order.
DispatchOnlyRemovesGone ==
  [][last'.op \in {"start", "settle"} =>
       subscriptions' =
         IF last'.op = "settle" /\ last'.statusCode = 410
           THEN SelectSeq(subscriptions,
                          LAMBDA r : r.endpoint # last'.subscription.endpoint)
           ELSE subscriptions]_vars

\* C10: the k-th entry of results is for the k-th record of the registry as
\* it stood when the dispatch started.
ResultsFollowStartOrder ==
  \A p \in Procs : Responded(p) =>
    \A k \in 1..Len(startSubs[p]) :
      /\ k <= Len(sent[p])
      /\ sent[p][k].endpoint = startSubs[p][k].endpoint
      /\ resp[p].results[k].subscription = Truncate(startSubs[p][k].endpoint)

RemoveAbsentIsNoOp ==
  [][/\ (/\ last'.op = "settle"
         /\ last'.statusCode = 410
         /\ last'.subscription.endpoint \notin EndpointsOf(subscriptions))
          => subscriptions' = subscriptions
     /\ (last'.op = "clear" /\ subscriptions = <<>>)
          => (subscriptions' = <<>> /\ res'.status = 200 /\ res'.success)]_vars

\* The registries that differ from subs only in the values of the keys.
KeyVariants(subs) ==
  {[k \in 1..Len(subs) |->
      [endpoint |-> subs[k].endpoint,
       keys |-> IF subs[k].keys = NoKeys THEN NoKeys ELSE f[k]]] :
     f \in [1..Len(subs) -> KeyVals]}

\* C20: GET /api/subscriptions returns a redacted snapshot: count is the
\* registry size at the call, there is one entry per record in registry
\* order, the response is the same for every registry that differs only in
\* the values of the keys, and the steps of a dispatch, which change the
\* registry, do not change a response already returned.
ListIsRedactedSnapshot ==
  /\ [](last.op = "list" =>
          /\ res.count = Len(subscriptions)
          /\ Len(res.subscriptions) = Len(subscriptions)
          /\ \A k \in 1..Len(subscriptions) :
               res.subscriptions[k].endpoint = Truncate(subscriptions[k].endpoint)
          /\ \A other \in KeyVariants(subscriptions) : ListResponse(other) = res)
  /\ [][last'.op \in {"start", "settle"} => res' = res]_vars

\* A list of two records, one without keys and one with keys.
ListWitness ==
  /\ last.op = "list"
  /\ res.count = 2
  /\ \E j, k \in 1..2 :
       /\ subscriptions[j].keys = NoKeys
       /\ subscriptions[k].keys = NumKeyVals


(***************************************************************************)
(* Properties of the OneSignal endpoints.                                  *)
(***************************************************************************)
\* the response "received but not notified"
SuppressedResponse(r) == r.status = 200 /\ r.notified = FALSE

Handling(route) == saas.pc # "idle" /\ saas.route = route

VendorAccepted(reply) ==
  reply.settled = "response" /\ reply.ok /\ reply.id # NoId

VendorRefused(reply) ==
  reply.settled = "rejected" \/ ~reply.ok

\* C14 as stated: for every confidence in 0..100 the trading-signal response
\* has notified=false and no vendor send was made when confidence < 75, and
\* has notified=true when confidence >= 75.
TradingThresholdAlwaysNotifies ==
  (saas.pc = "done" /\ saas.route = "trading-signal") =>
    IF saas.body.confidence < 75
      THEN SuppressedResponse(saas.resp) /\ saas.fetches = 0
      ELSE saas.resp.status = 200 /\ saas.resp.notified = TRUE

\* C14 amended: for every confidence in 0..100, a trading signal with
\* confidence < 75 is answered notified=false without a vendor send; with
\* confidence >= 75 it is never answered notified=false: when action and
\* symbol are given exactly one vendor send is made, the response has
\* notified=true when the vendor answers 2xx with an id, and it is an
\* HTTP 500 error when the vendor answers non-2xx, the vendor request fails
\* or no send could be made.
TradingThreshold ==
  Handling("trading-signal") =>
    IF saas.body.confidence < 75
      THEN saas.pc = "done" /\ SuppressedResponse(saas.resp)
           /\ saas.fetches = 0
      ELSE /\ ~(saas.pc = "done" /\ SuppressedResponse(saas.resp))
           /\ (saas.body.action # NoString /\ saas.body.symbol # NoString)
                => saas.fetches = 1
           /\ (saas.pc = "done" /\ saas.fetches = 0)
                => saas.resp.status = 500
           /\ (saas.pc = "done" /\ saas.fetches = 1) =>
                /\ VendorAccepted(saas.reply) =>
                     saas.resp.status = 200 /\ saas.resp.notified = TRUE
                /\ VendorRefused(saas.reply) => saas.resp.status = 500

\* a signal at the boundary confidence 75 was sent and answered notified=true
TradingBoundaryWitness ==
  /\ saas.pc = "done" /\ saas.route = "trading-signal"
  /\ saas.body.confidence = 75
  /\ saas.fetches = 1
  /\ saas.resp.status = 200 /\ saas.resp.notified = TRUE

\* C15: for all current and target prices of the range, a price alert
\* triggers exactly when (alertType = 'above' and current >= target) or
\* (alertType = 'below' and current <= target); in every other case,
\* any other or missing alertType included, the response has notified=false
\* and no vendor send is made.
PriceAlertRule ==
  Handling("price-alert") =>
    LET b == saas.body
        crossed == \/ b.alertType = "above" /\ b.currentPrice >= b.targetPrice
                   \/ b.alertType = "below" /\ b.currentPrice <= b.targetPrice
    IN  IF crossed
          THEN /\ ~(saas.pc = "done" /\ SuppressedResponse(saas.resp))
               /\ b.symbol # NoString =>
                    saas.fetches = 1 /\ saas.payload # NoPayload
          ELSE /\ saas.pc = "done" /\ SuppressedResponse(saas.resp)
               /\ saas.fetches = 0

\* an 'above' alert whose current price equals its target was sent
PriceAlertBoundaryWitness ==
  /\ Handling("price-alert")
  /\ saas.body.alertType = "above"
  /\ saas.body.currentPrice = saas.body.targetPrice
  /\ saas.fetches = 1

SaasSuccessNeedsOkAndId ==
  (saas.pc = "done" /\ saas.fetches = 1) =>
    (saas.resp.status = 200 <=> VendorAccepted(saas.reply))

\* C18: handling trading-signal, price-alert and market-event requests
\* leaves the registry unchanged, the notify/suppress decision is a function
\* of the request's fields alone, and a suppressed request produces no
\* notification request.
RulesAreStateless ==
  /\ [][(saas' # saas /\ saas'.route \in ConditionalRoutes)
          => subscriptions' = subscriptions]_vars
  /\ [](saas.pc # "idle" /\ saas.route \in ConditionalRoutes =>
          LET b == saas.body
              passes ==
                CASE saas.route = "trading-signal" -> ~(b.confidence < 75)
                  [] saas.route = "price-alert" ->
                       \/ b.alertType = "above"
                          /\ b.currentPrice >= b.targetPrice
                       \/ b.alertType = "below"
                          /\ b.currentPrice <= b.targetPrice
                  [] saas.route = "market-event" -> b.severity # "low"
              suppressed == saas.pc = "done" /\ SuppressedResponse(saas.resp)
          IN  /\ suppressed <=> ~passes
              /\ suppressed => saas.payload = NoPayload /\ saas.fetches = 0)

\* a trading signal was suppressed, with no payload built, while the
\* registry held a record
RulesStatelessWitness ==
  /\ saas.pc = "done" /\ saas.route = "trading-signal"
  /\ SuppressedResponse(saas.resp)
  /\ saas.payload = NoPayload
  /\ subscriptions # <<>>

\* C19: with a userId the vendor payload targets exactly that id and no
\* segment; without one it targets the segment of all subscribed users and
\* no id; every payload the conditional endpoints send has exactly one of
\* the two selectors.
TargetSelection ==
  (saas.pc # "idle" /\ saas.fetches = 1) =>
    LET ids == saas.payload.include_player_ids
        segments == saas.payload.included_segments
    IN  /\ (ids = <<>>) # (segments = <<>>)
        /\ saas.route \in ConditionalRoutes \cup {"onesignal-send"} =>
             IF saas.body.userId # NoUser
               THEN ids = <<saas.body.userId>> /\ segments = <<>>
               ELSE ids = <<>> /\ segments = <<"Subscribed Users">>

\* a price alert for one user was sent to that user's id alone
TargetSelectionWitness ==
  /\ saas.pc # "idle" /\ saas.fetches = 1
  /\ saas.route = "price-alert"
  /\ saas.body.userId # NoUser
  /\ saas.payload.include_player_ids = <<saas.body.userId>>


(***************************************************************************)
(* Properties of the browser client.                                       *)
(***************************************************************************)
\* C13: when unsubscribeFromPushNotifications completes successfully for a
\* subscription that was saved on the server, the registry no longer holds
\* a record with that subscription's endpoint.
UnsubscribeDeletesRecord ==
  [][(/\ cpc = "unsubscribing"
      /\ localStorage = csub
      /\ cresult'.call = "unsubscribe"
      /\ cresult'.settled = "resolved")
       => csub.endpoint \notin EndpointsOf(subscriptions')]_vars


(***************************************************************************)
(* Termination of the send loop.                                           *)
(***************************************************************************)
\* C22: provided every web-push send settles, every send-notification call
\* ends with a response, whatever the registry holds, whatever the sends
\* answer and whichever subscribe / clear-all requests interleave; every
\* iteration advances the index, shrinks the registry or ends the loop.
SendLoopTerminates ==
  /\ \A p \in Procs : (pc[p] = "awaiting") ~> (pc[p] = "done")
  /\ [][\A p \in Procs :
          (last'.op = "settle" /\ last'.p = p) =>
            \/ i'[p] > i[p]
            \/ Len(subscriptions') < Len(subscriptions)
            \/ pc'[p] = "done"]_vars

\* a call ended with a response after a 410 removal of its own and after
\* another request changed the registry under it
SendLoopTerminatesWitness ==
  \E p \in Procs :
    /\ Responded(p)
    /\ interleaved[p]
    /\ \E k \in 1..Len(resp[p].results) : resp[p].results[k].statusCode = 410
    /\ Len(resp[p].results) >= 2


\* C23: pushManager.subscribe is called and the subscription is posted only
\* with the service worker registered and permission 'granted'; with
\* permission already 'denied' the flow fails without prompting, creating a
\* subscription or contacting the server; the subscription is posted only
\* when it carries endpoint, p256dh and auth.
SubscribeStepOrder ==
  /\ [](cpc \in {"getSubscription", "creating", "posting"}
          => swRegistered /\ permission = "granted")
  /\ [](cpc = "posting" =>
          /\ csub.endpoint # EmptyEndpoint
          /\ csub.keys \notin {NoKeys, KeysWithoutAuth, KeysWithoutP256dh}
          /\ csub = browserSub)
  /\ [][(cpc = "registering" /\ permission = "denied" /\ cpc' # cpc) =>
          /\ cpc' = "idle"
          /\ cresult' = [call |-> "subscribe", settled |-> "rejected"]
          /\ browserSub' = browserSub
          /\ permission' = permission
          /\ nreq' = nreq /\ subscriptions' = subscriptions]_vars
  /\ [][(last'.op = "subscribe" /\ nreq' # nreq) =>
          /\ cpc = "posting"
          /\ last'.sub = csub
          /\ swRegistered /\ permission = "granted"]_vars

\* a validated subscription is being posted, the service worker registered
\* and the permission granted
SubscribeStepOrderWitness ==
  /\ cpc = "posting"
  /\ csub \in Subscriptions
  /\ swRegistered /\ permission = "granted"

\* C24: with a valid browser subscription subscribeToPushNotifications
\* resolves with it whether or not the backend saved it; when the POST fails
\* the item 'pushSubscription' is not written, and the item is written only
\* with a subscription the server acknowledged.
SaveFailureDoesNotFailSubscribe ==
  /\ [][(cpc = "posting" /\ cpc' # cpc) =>
          /\ cpc' = "idle"
          /\ cresult'.settled = "resolved"
          /\ cresult'.value = csub
          /\ cresult'.post # "answered" => localStorage' = localStorage]_vars
  /\ [][(localStorage' # localStorage /\ localStorage' # NoSub) =>
          /\ cresult'.settled = "resolved" /\ cresult'.post = "answered"
          /\ localStorage' = csub
          /\ res'.status = 200 /\ res'.success
          /\ last'.sub = csub
          /\ csub \in {subscriptions'[k] : k \in 1..Len(subscriptions')}]_vars

\* the flow resolved with its subscription although the POST failed, and
\* the item was not written
SaveFailureWitness ==
  /\ cresult.call = "subscribe"
  /\ cresult.settled = "resolved"
  /\ cresult.post = "failed"
  /\ cresult.value \in Subscriptions
  /\ localStorage = NoSub

\* C21: a status returned by getOneSignalStatus with OneSignal initialized
\* and a non-empty userId has isSubscribed = true; in particular when the
\* read of the opted-in flag failed and a user id was obtained.
StatusSubscribedWithUserId ==
  oscall.fn = "getOneSignalStatus" =>
    /\ (oscall.result.isInitialized /\ oscall.result.userId # NoUser
          => oscall.result.isSubscribed = TRUE)
    /\ ((oscall.initialized /\ oscall.env.optedIn = "throws"
           /\ ~oscall.env.userIdThrows /\ oscall.env.userId # NoUser)
          => (oscall.result.isInitialized
                /\ oscall.result.userId = oscall.env.userId
                /\ oscall.result.isSubscribed = TRUE))

\* the opted-in read threw, a user id was read, and the status says
\* subscribed
StatusFallbackWitness ==
  /\ oscall.fn = "getOneSignalStatus"
  /\ oscall.initialized
  /\ oscall.env.optedIn = "throws"
  /\ oscall.result.userId = 1
  /\ oscall.result.isSubscribed

\* C25: loadOneSignal appends at most one script element whatever the number
\* and overlap of its calls; a call made while a load is pending, or after
\* it succeeded or failed, appends nothing and replaces no promise (it
\* returns at once after success, the same promise otherwise); a rejected
\* promise stays rejected and no reload follows.
LoadsScriptAtMostOnce ==
  /\ [](scripts <= 1)
  /\ [][(loadCalls' # loadCalls
          /\ (oneSignalLoaded \/ oneSignalPromise # "null")) =>
          /\ scripts' = scripts
          /\ oneSignalPromise' = oneSignalPromise
          /\ loadCalls'[Len(loadCalls')] =
               IF oneSignalLoaded THEN "returned" ELSE "same promise"]_vars
  /\ [][oneSignalPromise = "rejected" =>
          /\ oneSignalPromise' = "rejected"
          /\ scripts' = scripts
          /\ oneSignalLoaded' = FALSE]_vars

\* the script was appended once, its load failed, and a later call got the
\* same rejected promise
LoadFailedOnceWitness ==
  /\ Len(loadCalls) >= 2
  /\ loadCalls[Len(loadCalls)] = "same promise"
  /\ oneSignalPromise = "rejected"
  /\ scripts = 1

\* in the run of subscribeOneSignal no call threw and no Error was raised
NoStepThrows ==
  /\ oscall.initialized
  /\ \/ oscall.env.enabled = "true"
     \/ /\ oscall.env.enabled = "false"
        /\ oscall.env.answer \in {"unread", "granted"}
        /\ oscall.env.method = "ok"
        /\ oscall.env.finalOptedIn \in {"true", "false"}

\* C26 as stated: subscribeOneSignal resolves with a boolean; false when
\* OneSignal is not initialized, when the notification permission is not
\* granted, or when the subscription method fails and no prompt fallback
\* succeeds; true when no step throws.
SubscribeFalseWithoutPermission ==
  oscall.fn = "subscribeOneSignal" =>
    /\ oscall.settled = "resolved" /\ oscall.result \in BOOLEAN
    /\ (~oscall.initialized => oscall.result = FALSE)
    /\ (permission # "granted" => oscall.result = FALSE)
    /\ (oscall.env.method \in {"throws", "none"} /\ oscall.env.prompt # "ok"
          => oscall.result = FALSE)
    /\ (NoStepThrows => oscall.result = TRUE)

\* C26 amended: as above, but the permission decides only when
\* isPushNotificationsEnabled did not report an existing subscription; when
\* it did, the result is true whatever the permission.
SubscribeOneSignalResult ==
  oscall.fn = "subscribeOneSignal" =>
    /\ oscall.settled = "resolved" /\ oscall.result \in BOOLEAN
    /\ (~oscall.initialized => oscall.result = FALSE)
    /\ (oscall.initialized /\ oscall.env.enabled = "true"
          => oscall.result = TRUE)
    /\ (oscall.env.enabled # "true" /\ permission # "granted"
          => oscall.result = FALSE)
    /\ (oscall.env.method \in {"throws", "none"} /\ oscall.env.prompt # "ok"
          => oscall.result = FALSE)
    /\ (NoStepThrows => oscall.result = TRUE)
    /\ (oscall.env.finalOptedIn = "false" /\ oscall.env.finalUserId = NoUser
          => oscall.result = TRUE)

\* OneSignal reported an existing subscription and the call resolved true
\* although the permission is not granted
AlreadyEnabledWitness ==
  /\ oscall.fn = "subscribeOneSignal"
  /\ oscall.env.enabled = "true"
  /\ permission # "granted"
  /\ oscall.result = TRUE

\* C30: sendOneSignalNotification never rejects; it posts to the server
\* exactly when OneSignal is initialized and a user id was found; it returns
\* true when the server acknowledged the send, and otherwise true exactly
\* when the permission is 'granted' and the fallback notification could be
\* shown.
SendOneSignalFallback ==
  oscall.fn = "sendOneSignalNotification" =>
    /\ oscall.settled = "resolved" /\ oscall.result \in BOOLEAN
    /\ (oscall.env.fetched <=>
          oscall.initialized /\ oscall.env.userId # NoUser)
    /\ (oscall.env.fetched /\ oscall.env.reply = "success"
          => oscall.result = TRUE /\ oscall.env.notification = "unread")
    /\ (~oscall.env.fetched \/ oscall.env.reply # "success" =>
          (oscall.result <=>
             permission = "granted" /\ oscall.env.notification = "shown"))

\* the server refused the send and the fallback notification was shown
SendFallbackWitness ==
  /\ oscall.fn = "sendOneSignalNotification"
  /\ oscall.env.fetched
  /\ oscall.env.reply = "not ok"
  /\ oscall.env.notification = "shown"
  /\ oscall.result = TRUE

\* a step appended k entries: the log holds at most 50 entries afterwards,
\* and the entries before the new ones are the newest of the old log, in
\* their order
Appended(k) ==
  LET keep == Len(logs') - k IN
  /\ Len(logs') = IF Len(logs) + k <= 50 THEN Len(logs) + k ELSE 50
  /\ SubSeq(logs', 1, keep) = SubSeq(logs, Len(logs) - keep + 1, Len(logs))
  /\ \A j \in keep + 1 .. Len(logs') : logs'[j].message # "Logs cleared"

\* C27: the activity log never holds more than 50 entries; a step that adds
\* entries keeps the newest old entries in their order and drops only the
\* oldest ones, exactly one per entry added to a full log; clearLogs leaves
\* the single entry 'Logs cleared'.
LogBounded ==
  /\ [](Len(logs) <= 50)
  /\ [][logs' # logs =>
          /\ logs' # <<>>
          /\ IF logs'[Len(logs')].message = "Logs cleared"
               THEN Len(logs') = 1
               ELSE Appended(1) \/ Appended(2)]_vars
  /\ [][(Len(logs) = 50 /\ Len(logs') = 50 /\ logs' # logs
          /\ logs'[49] = logs[50]) =>
          logs' = Append(Tail(logs), logs'[50])]_vars

\* the log is full and its oldest entries were dropped
LogFullWitness ==
  /\ Len(logs) = 50
  /\ logs[1].id = 3
  /\ logs[50].id = 52

\* C28: a handler sets isLoading to true when it starts, isLoading stays
\* true while it runs, and it is false when the handler finishes, whatever
\* the outcome of the operation; with every awaited operation settling, each
\* started handler finishes with isLoading false.
HandlersResetLoading ==
  /\ [][(handler.pc = "idle" /\ handler'.pc # "idle") => isLoading']_vars
  /\ [](handler.pc # "idle" => isLoading)
  /\ [][(handler.pc # "idle" /\ handler'.pc = "idle") => ~isLoading']_vars
  /\ \A h \in Handlers :
       (handler.name = h /\ handler.pc # "idle")
         ~> (handler.name = h /\ handler.pc = "idle" /\ ~isLoading)

\* handleSendMultiple finished after its second send threw, and isLoading
\* is false
HandlerThrewWitness ==
  /\ handler.name = "handleSendMultiple"
  /\ handler.pc = "idle"
  /\ handler.outcome = "throws"
  /\ handler.i = 1
  /\ ~isLoading

\* the clients of the list that show the page the notification points to
ClientsAtTarget ==
  {j \in 1..Len(click.clientList) :
     Absolute(click.clientList[j].url) = Absolute(click.urlToOpen)}

\* C29: every click closes the notification; a click on 'dismiss' focuses
\* and opens nothing; any other click, with matchAll resolved and
\* clients.openWindow available, focuses an open client whose URL is the
\* notification's target URL if there is one, and otherwise opens one new
\* window for that URL; never both.
ClickFocusesOpenClient ==
  click.pc = "done" =>
    /\ click.closed
    /\ ~(click.focused # 0 /\ click.opened # <<>>)
    /\ (click.action = "dismiss" =>
          click.focused = 0 /\ click.opened = <<>>)
    /\ ((click.action # "dismiss" /\ click.matchAll = "resolved"
           /\ click.openWindow) =>
          IF ClientsAtTarget # {}
            THEN click.focused \in ClientsAtTarget /\ click.opened = <<>>
            ELSE /\ click.focused = 0
                 /\ click.opened = <<Absolute(click.urlToOpen)>>)

====
